---- MODULE Spec2Model ----
(***************************************************************************)
(* A model of maxadd/glog (src/glog.go): a severity-gated logger writing   *)
(* to one size-rotated file through a bufio.Writer, guarded by one mutex,  *)
(* with a background flush daemon.                                         *)
(*                                                                         *)
(* Bytes are modelled as pairs <<record id, character>> so that the origin *)
(* of every byte in the buffer and in the files can be traced.  Sizes are  *)
(* counted in these model bytes.                                           *)
(***************************************************************************)
EXTENDS Integers, Sequences, FiniteSets, TLC

\* ------------------------------------------------------------------ bounds
\* The number of emit calls that pass the level gate in one behaviour.
MaxRecords == 2

\* --------------------------------------------------------- program constants
DebugLog == 0
InfoLog == 1
WarningLog == 2
ErrorLog == 3
FatalLog == 4

severityChar == <<"D", "I", "W", "E", "F">>

\* const bufferSize = 256 * 1024, scaled to the model's record sizes.
bufferSize == 6

NL == "\n"

\* The five defined severities, and the values the int32 field logLevel is
\* given in the model: the defined ones, one below and one above.
Severities == DebugLog..FatalLog
Levels == (DebugLog - 1)..(FatalLog + 1)

\* The emitting threads and the flush daemon goroutine.
Emitters == {"e1", "e2"}
Daemon == "daemon"
Procs == Emitters \cup {Daemon}
NoProc == "none"

\* The entry points: print-style, printf-style and their Depth variants.
Variants == {"plain", "f", "Depth", "fDepth"}

\* Payload texts handed to an emit call (what fmt.Fprint / fmt.Fprintf add
\* to the buffer after the header).
Payloads == {<<>>, <<"x">>, <<NL>>, <<"x", NL>>}

\* fileMaxSize values of the concurrent specification, in model bytes.
MaxSizes == {4, 8}

\* Buffer identities of the sync.Pool: an emit call holds at most one.
BufIds == 1..Cardinality(Emitters)
NoBuf == 0

VARIABLES
    \* loggingT
    logLevel, fileMaxSize, mu, file,
    \* syncBuffer: nbytes, the state of its *os.File ("nil", "open" or
    \* "closed"), and its bufio.Writer (buf, n, err; wgen tells the Writer
    \* objects made by successive create() calls apart)
    nbytes, sbfile, wbuf, wn, werr, wgen,
    \* the file system: the file at logPath, the files renamed aside, and
    \* how many bytes of the file at logPath a Sync has made durable
    fexists, logfile, rotated, synced,
    \* sync.Pool and the buffers' contents
    pool, bufs,
    \* per goroutine: position, severity and payload of the call in
    \* progress, buffer held, frame of bufio.Write, Writer seen by Flush,
    \* reason for being in exit()
    \* and the id of the record of the call in progress
    pc, sev, arg, held, bw, fgen, cause, cur,
    \* the process: exit code (Running while alive), who exited, stderr
    exitCode, exitBy, stderr,
    \* NewLogger's size string (character codes), and whether it panicked
    sizeArg, panicked,
    \* the arguments and the result of a call of formatHeader
    \* (respectively of the two calls of rotateFile whose file names are
    \* compared)
    fnArgs, fnOut,
    \* history: the records formatted so far (by id), the ids in the
    \* order their emitters acquired mu, whether an I/O operation failed,
    \* and the last rotation: [by, rid, old, at]
    records, lockOrder, iofault, lastRot

vars == <<logLevel, fileMaxSize, mu, file, nbytes, sbfile, wbuf, wn, werr, wgen,
          fexists, logfile, rotated, synced, pool, bufs,
          pc, sev, arg, held, bw, fgen, cause, cur,
          exitCode, exitBy, stderr, sizeArg, panicked, fnArgs, fnOut,
          records, lockOrder, iofault, lastRot>>

Running == -1

\* ------------------------------------------------------------ sequences
RECURSIVE Flatten(_)
Flatten(ss) == IF ss = <<>> THEN <<>> ELSE Head(ss) \o Flatten(Tail(ss))

IsPrefix(s, t) == Len(s) <= Len(t) /\ SubSeq(t, 1, Len(s)) = s

Tag(rid, s) == [i \in 1..Len(s) |-> <<rid, s[i]>>]

Untag(bs) == [i \in 1..Len(bs) |-> bs[i][2]]

Last(s) == s[Len(s)]

\* ---------------------------------------------------------------- uint64
\* A uint64 is kept as four 16-bit limbs, least significant first: the
\* values unitConv computes do not fit the model checker's integers.
Limb == 65536

U64OfNat(v) == <<v % Limb, (v \div Limb) % Limb, 0, 0>>

\* uint64(c) of a signed 32-bit c: sign extension.
U64OfInt32(c) ==
    IF c >= 0 THEN U64OfNat(c) ELSE <<Limb + c, Limb - 1, Limb - 1, Limb - 1>>

\* u * m + a, modulo 2^64 (m small).
U64MulAdd(u, m, a) ==
    LET t1 == u[1] * m + a[1]
        t2 == u[2] * m + a[2] + (t1 \div Limb)
        t3 == u[3] * m + a[3] + (t2 \div Limb)
        t4 == u[4] * m + a[4] + (t3 \div Limb)
    IN  <<t1 % Limb, t2 % Limb, t3 % Limb, t4 % Limb>>

U64Zero == <<0, 0, 0, 0>>

U64Mul(u, m) == U64MulAdd(u, m, U64Zero)

\* a >= b on uint64
U64GE(a, b) ==
    \/ a[4] > b[4]
    \/ a[4] = b[4] /\ a[3] > b[3]
    \/ a[4] = b[4] /\ a[3] = b[3] /\ a[2] > b[2]
    \/ a[4] = b[4] /\ a[3] = b[3] /\ a[2] = b[2] /\ a[1] >= b[1]

cfgVars == <<logLevel, fileMaxSize>>
sinkVars == <<file, nbytes, sbfile, wbuf, wn, werr, wgen>>
diskVars == <<fexists, logfile, rotated, synced>>
poolVars == <<pool, bufs>>
procVars == <<exitCode, exitBy, stderr>>
fnVars == <<fnArgs, fnOut>>
convVars == <<sizeArg, panicked, fnVars>>

NoCall == <<>>
histVars == <<records, lockOrder, iofault, lastRot>>

NoRot == [by |-> NoProc, rid |-> 0, old |-> <<>>, at |-> 0]
NoFrame == [base |-> 0, k |-> 0, nn |-> 0]
NoArg == <<>>

\* ------------------------------------------------------- record assembly
\* formatHeader: the severity character (values above FatalLog clamped)
\* ... "] ".  The header is abridged to its first and its last byte.
formatHeader(buf, rid, s) ==
    LET c == IF s > FatalLog THEN FatalLog ELSE s
    IN  buf \o Tag(rid, <<severityChar[c + 1], " ">>)

\* fmt.Fprint(buf, args...) / fmt.Fprintf(buf, format, args...)
Fprint(buf, rid, text) == buf \o Tag(rid, text)

\* printDepth without its test of the last byte: the newline is always
\* written.
printDepthAlways(buf, rid, s, text) ==
    Append(Fprint(formatHeader(buf, rid, s), rid, text), <<rid, NL>>)

printDepth(buf, rid, s, text) ==
    LET b == Fprint(formatHeader(buf, rid, s), rid, text)
    IN  IF b[Len(b)][2] # NL THEN Append(b, <<rid, NL>>) ELSE b

printfDepth(buf, rid, s, text) ==
    LET b == Fprint(formatHeader(buf, rid, s), rid, text)
    IN  IF b[Len(b)][2] # NL THEN Append(b, <<rid, NL>>) ELSE b

printf(buf, rid, s, text) ==
    LET b == Fprint(formatHeader(buf, rid, s), rid, text)
    IN  IF b[Len(b)][2] # NL THEN Append(b, <<rid, NL>>) ELSE b

print(buf, rid, s, text) == printDepth(buf, rid, s, text)

\* The function each entry point calls: Xxx -> print, Xxxf -> printf,
\* XxxDepth -> printDepth, XxxfDepth -> printfDepth.
Assemble(v, buf, rid, s, text) ==
    CASE v = "plain" -> print(buf, rid, s, text)
      [] v = "f" -> printf(buf, rid, s, text)
      [] v = "Depth" -> printDepth(buf, rid, s, text)
      [] OTHER -> printfDepth(buf, rid, s, text)

\* A gate that admits only severities above the level.
shouldEmitAbove(s, level) == s > level

\* The level gate of every entry point: if XxxLog >= l.logLevel { ... }
shouldEmit(s, level) == s >= level

\* ------------------------------------------------------------ sync.Pool
\* pool.Get(): a pooled buffer, or a new one from New.
Unallocated == BufIds \ (pool \cup {held[t] : t \in Emitters})
getBuffer ==
    pool \cup (IF Unallocated = {} THEN {}
               ELSE {CHOOSE b \in Unallocated : \A c \in Unallocated : b <= c})

\* A putBuffer that pools the buffer as it is.
putBufferAsIs(b) ==
    /\ bufs' = bufs
    /\ pool' = pool \cup {b}

\* putBuffer: buf.Buffer.Reset(); pool.Put(buf)
putBuffer(b) ==
    /\ bufs' = [bufs EXCEPT ![b] = <<>>]
    /\ pool' = pool \cup {b}

\* ----------------------------------------------------------- entry points
Alive == exitCode = Running

\* A call of Debug/Info/Warning/Error/Fatal or of their f, Depth and fDepth
\* variants (v), with severity s and payload text p.  The entry point
\* reads l.logLevel (without the lock).  Admitted: header() and the
\* payload are formatted into a buffer from the pool and output() is
\* entered, data := buf.Bytes().  Turned away: the call returns.
Call(t, v, s, p) ==
    /\ Alive
    /\ pc[t] = "idle"
    /\ sev' = [sev EXCEPT ![t] = s]
    /\ IF shouldEmit(s, logLevel)
       THEN /\ Len(records) < MaxRecords
            /\ \E b \in getBuffer :
                 LET rid == Len(records) + 1
                     data == Assemble(v, bufs[b], rid, s, p)
                 IN  /\ pool' = pool \ {b}
                     /\ bufs' = [bufs EXCEPT ![b] = data]
                     /\ held' = [held EXCEPT ![t] = b]
                     /\ cur' = [cur EXCEPT ![t] = rid]
                     /\ records' = Append(records, data)
                     /\ arg' = [arg EXCEPT ![t] = p]
                     /\ pc' = [pc EXCEPT ![t] = "lock"]
       ELSE /\ pc' = [pc EXCEPT ![t] = "declined"]
            /\ UNCHANGED <<pool, bufs, held, cur, records, arg>>
    /\ UNCHANGED <<cfgVars, mu, sinkVars, diskVars, bw, fgen, cause,
                   procVars, convVars, lockOrder, iofault, lastRot>>

\* The return of a call the gate turned away.
Return(t) ==
    /\ Alive
    /\ pc[t] = "declined"
    /\ pc' = [pc EXCEPT ![t] = "idle"]
    /\ sev' = [sev EXCEPT ![t] = DebugLog]
    /\ UNCHANGED <<cfgVars, mu, sinkVars, diskVars, poolVars, arg, held, cur,
                   bw, fgen, cause, procVars, convVars, histVars>>

\* SetLevel: l.logLevel = level, an unsynchronised store.
SetLevel(t, level) ==
    /\ Alive
    /\ pc[t] = "idle"
    /\ logLevel' = level
    /\ UNCHANGED <<fileMaxSize, mu, sinkVars, diskVars, poolVars, pc, sev, arg,
                   held, cur, bw, fgen, cause, procVars, convVars, histVars>>

\* --------------------------------------------------------------- output
Data(t) == bufs[held[t]]
Rid(t) == cur[t]

\* An output that calls create() on every call, without the test.
OutputLockThenCreate(t) ==
    /\ Alive
    /\ pc[t] = "lock"
    /\ mu = NoProc
    /\ mu' = t
    /\ lockOrder' = Append(lockOrder, Rid(t))
    /\ pc' = [pc EXCEPT ![t] = "create"]
    /\ UNCHANGED <<cfgVars, sinkVars, diskVars, poolVars, sev, arg, held, cur, bw,
                   fgen, cause, procVars, convVars, records, iofault, lastRot>>

\* output: l.mu.Lock(), then the test l.file == nil.
OutputLock(t) ==
    /\ Alive
    /\ pc[t] = "lock"
    /\ mu = NoProc
    /\ mu' = t
    /\ lockOrder' = Append(lockOrder, Rid(t))
    /\ pc' = [pc EXCEPT ![t] = IF file = "nil" THEN "create" ELSE "write"]
    /\ UNCHANGED <<cfgVars, sinkVars, diskVars, poolVars, sev, arg, held, cur, bw,
                   fgen, cause, procVars, convVars, records, iofault, lastRot>>

\* output, l.file == nil: sb.create().  os.Create truncates or creates the
\* file; on failure the record goes to os.Stderr and l.exit(err) is called.
OutputCreate(t) ==
    /\ Alive
    /\ pc[t] = "create"
    /\ \E ok \in BOOLEAN :
         IF ok
         THEN /\ fexists' = TRUE
              /\ logfile' = <<>>
              /\ synced' = 0
              /\ sbfile' = "open"
              /\ nbytes' = 0
              /\ file' = "sb"
              /\ wbuf' = <<>>
              /\ wn' = 0
              /\ werr' = FALSE
              /\ wgen' = wgen + 1
              /\ pc' = [pc EXCEPT ![t] = "write"]
              /\ UNCHANGED <<stderr, cause, iofault>>
         ELSE /\ stderr' = Append(stderr, [kind |-> "data", bytes |-> Data(t)])
              /\ cause' = [cause EXCEPT ![t] = "create"]
              /\ iofault' = TRUE
              /\ pc' = [pc EXCEPT ![t] = "exit"]
              /\ UNCHANGED <<sinkVars, diskVars>>
    /\ UNCHANGED <<cfgVars, mu, rotated, poolVars, sev, arg, held, cur, bw, fgen,
                   exitCode, exitBy, convVars, records, lockOrder, lastRot>>

\* A size test that lets the counter reach fileMaxSize.
needRotateAbove(n, len, max) == ~U64GE(max, U64OfNat(n + len))

\* The test of syncBuffer.Write.
needRotate(n, len, max) == U64GE(U64OfNat(n + len), max)

\* syncBuffer.Write, first part: the size test and rotateFile, which
\* flushes, closes, renames the file aside and calls create(); an error of
\* Rename or of create() goes to l.exit(err), one of Flush is ignored.
SyncBufferWrite(t) ==
    /\ Alive
    /\ pc[t] = "write"
    /\ IF needRotate(nbytes, Len(Data(t)), fileMaxSize)
       THEN \E okFlush, okRename, okCreate \in BOOLEAN :
              LET pending == ~werr /\ wn > 0
                  flushed == IF pending /\ okFlush
                             THEN logfile \o SubSeq(wbuf, 1, wn) ELSE logfile
                  n1 == IF pending /\ okFlush THEN 0 ELSE wn
                  buf1 == IF pending /\ okFlush THEN <<>> ELSE wbuf
                  err1 == werr \/ (pending /\ ~okFlush)
                  failed == (pending /\ ~okFlush) \/ ~okRename \/ ~okCreate
              IN  /\ (~pending => okFlush)
                  /\ (~okRename => okCreate)
                  /\ iofault' = (iofault \/ failed)
                  /\ IF ~okRename
                     THEN /\ logfile' = flushed
                          /\ sbfile' = "closed"
                          /\ wn' = n1 /\ wbuf' = buf1 /\ werr' = err1
                          /\ cause' = [cause EXCEPT ![t] = "rename"]
                          /\ pc' = [pc EXCEPT ![t] = "exit"]
                          /\ UNCHANGED <<fexists, rotated, synced, nbytes,
                                         wgen, lastRot>>
                     ELSE IF ~okCreate
                     THEN /\ rotated' = Append(rotated, flushed)
                          /\ fexists' = FALSE
                          /\ logfile' = <<>>
                          /\ synced' = 0
                          /\ sbfile' = "nil"
                          /\ wn' = n1 /\ wbuf' = buf1 /\ werr' = err1
                          /\ cause' = [cause EXCEPT ![t] = "recreate"]
                          /\ pc' = [pc EXCEPT ![t] = "exit"]
                          /\ UNCHANGED <<nbytes, wgen, lastRot>>
                     ELSE /\ rotated' = Append(rotated, flushed)
                          /\ fexists' = TRUE
                          /\ logfile' = <<>>
                          /\ synced' = 0
                          /\ sbfile' = "open"
                          /\ nbytes' = 0
                          /\ wbuf' = <<>> /\ wn' = 0 /\ werr' = FALSE
                          /\ wgen' = wgen + 1
                          /\ lastRot' = [by |-> t, rid |-> Rid(t),
                                         old |-> flushed,
                                         at |-> Len(rotated) + 1]
                          /\ pc' = [pc EXCEPT ![t] = "copy"]
                          /\ UNCHANGED cause
       ELSE /\ pc' = [pc EXCEPT ![t] = "copy"]
            /\ UNCHANGED <<nbytes, sbfile, wbuf, wn, werr, wgen, diskVars,
                           cause, iofault, lastRot>>
    /\ UNCHANGED <<cfgVars, mu, file, poolVars, sev, arg, held, cur, bw, fgen,
                   procVars, convVars, records, lockOrder>>

\* bufio.Writer.Write, its loop: while len(p) > b.Available() and no error,
\* a large write into an empty buffer goes straight to the file, otherwise
\* the buffer is filled up and flushed.  oks: the outcome of each write to
\* the file.  The result is the Writer, the file and the count nn before
\* the final copy of the rest of p.
RECURSIVE bufioLoop(_, _, _, _, _, _, _)
bufioLoop(p, buf, n, err, f, nn, oks) ==
    IF Len(p) > bufferSize - n /\ ~err
    THEN IF n = 0
         THEN IF Head(oks)
              THEN bufioLoop(<<>>, buf, n, err, f \o p, nn + Len(p), Tail(oks))
              ELSE bufioLoop(p, buf, n, TRUE, f, nn, Tail(oks))
         ELSE LET m == bufferSize - n
                  full == SubSeq(buf, 1, n) \o SubSeq(p, 1, m)
                  rest == SubSeq(p, m + 1, Len(p))
              IN  IF Head(oks)
                  THEN bufioLoop(rest, <<>>, 0, err, f \o full, nn + m, Tail(oks))
                  ELSE bufioLoop(rest, full, n + m, TRUE, f, nn + m, Tail(oks))
    ELSE [p |-> p, buf |-> buf, n |-> n, err |-> err, f |-> f, nn |-> nn]

\* The outcomes of the (at most two) writes to the file of one call.
Outcomes == {<<TRUE, TRUE>>, <<TRUE, FALSE>>, <<FALSE, FALSE>>}

\* syncBuffer.Write, second part: sb.Writer.Write(p) up to the copy of the
\* rest of p into the buffer at b.buf[b.n:].  With an error it returns at
\* once: sb.nbytes += n, then l.exit(err).
BufioCopy(t) ==
    /\ Alive
    /\ pc[t] = "copy"
    /\ \E oks \in Outcomes :
         LET r == bufioLoop(Data(t), wbuf, wn, werr, logfile, 0, oks)
         IN  /\ logfile' = r.f
             /\ werr' = r.err
             /\ iofault' = (iofault \/ (r.err /\ ~werr))
             /\ IF r.err
                THEN /\ wbuf' = r.buf
                     /\ wn' = r.n
                     /\ nbytes' = nbytes + r.nn
                     /\ cause' = [cause EXCEPT ![t] = "write"]
                     /\ pc' = [pc EXCEPT ![t] = "exit"]
                     /\ UNCHANGED bw
                ELSE /\ wbuf' = SubSeq(r.buf, 1, r.n) \o r.p
                     /\ wn' = r.n
                     /\ bw' = [bw EXCEPT ![t] =
                                 [base |-> r.n, k |-> Len(r.p), nn |-> r.nn]]
                     /\ pc' = [pc EXCEPT ![t] = "publish"]
                     /\ UNCHANGED <<nbytes, cause>>
    /\ UNCHANGED <<cfgVars, mu, file, sbfile, wgen, fexists, rotated, synced,
                   poolVars, sev, arg, held, cur, fgen, procVars, convVars, records,
                   lockOrder, lastRot>>

\* b.n += n: the counts the addition can start from, the value read for
\* the copy or the value b.n has by now (they differ only when a flush
\* without the lock ran in between).
publishBases(t) == {bw[t].base, wn}

\* syncBuffer.Write, last part: b.n += n ends sb.Writer.Write(p); then
\* sb.nbytes += uint64(n), and Write returns to output.
BufioPublish(t) ==
    /\ Alive
    /\ pc[t] = "publish"
    /\ \E b \in publishBases(t) : wn' = b + bw[t].k
    /\ nbytes' = nbytes + bw[t].nn + bw[t].k
    /\ bw' = [bw EXCEPT ![t] = NoFrame]
    /\ pc' = [pc EXCEPT ![t] = "unlock"]
    /\ UNCHANGED <<cfgVars, mu, file, sbfile, wbuf, werr, wgen, diskVars,
                   poolVars, sev, arg, held, cur, fgen, cause, procVars, convVars,
                   histVars>>

\* An output that goes on to putBuffer without l.mu.Unlock().
OutputKeepLock(t) ==
    /\ Alive
    /\ pc[t] = "unlock"
    /\ pc' = [pc EXCEPT ![t] = "put"]
    /\ UNCHANGED <<cfgVars, mu, sinkVars, diskVars, poolVars, sev, arg, held,
                   cur, bw, fgen, cause, procVars, convVars, histVars>>

\* output: l.mu.Unlock()
OutputUnlock(t) ==
    /\ Alive
    /\ pc[t] = "unlock"
    /\ mu' = NoProc
    /\ pc' = [pc EXCEPT ![t] = "put"]
    /\ UNCHANGED <<cfgVars, sinkVars, diskVars, poolVars, sev, arg, held, cur, bw,
                   fgen, cause, procVars, convVars, histVars>>

\* output: l.putBuffer(buf), and the return to the entry point: a Fatal*
\* call goes on to l.exit(errors.New("")), the others return.
OutputPut(t) ==
    /\ Alive
    /\ pc[t] = "put"
    /\ putBuffer(held[t])
    /\ held' = [held EXCEPT ![t] = NoBuf]
    /\ arg' = [arg EXCEPT ![t] = NoArg]
    /\ IF sev[t] = FatalLog
       THEN /\ cause' = [cause EXCEPT ![t] = "fatal"]
            /\ pc' = [pc EXCEPT ![t] = "exit"]
            /\ UNCHANGED <<sev, cur>>
       ELSE /\ pc' = [pc EXCEPT ![t] = "idle"]
            /\ sev' = [sev EXCEPT ![t] = DebugLog]
            /\ cur' = [cur EXCEPT ![t] = 0]
            /\ UNCHANGED cause
    /\ UNCHANGED <<cfgVars, mu, sinkVars, diskVars, bw, fgen, procVars,
                   convVars, histVars>>

\* ------------------------------------------------------- exit, flushAll
\* An exit that takes the lock for its flush, as lockAndFlushAll does.
ExitLocking(p) ==
    /\ Alive
    /\ pc[p] = "exit"
    /\ mu = NoProc
    /\ mu' = p
    /\ stderr' = Append(stderr, [kind |-> "msg", bytes |-> <<>>])
    /\ pc' = [pc EXCEPT ![p] = "x_fl1"]
    /\ UNCHANGED <<cfgVars, sinkVars, diskVars, poolVars, sev, arg, held, cur,
                   bw, fgen, cause, exitCode, exitBy, convVars, histVars>>

\* exit: fmt.Fprintf(os.Stderr, "log: exiting because of error: %s\n", err)
Exit(p) ==
    /\ Alive
    /\ pc[p] = "exit"
    /\ stderr' = Append(stderr, [kind |-> "msg", bytes |-> <<>>])
    /\ pc' = [pc EXCEPT ![p] = "x_fl1"]
    /\ UNCHANGED <<cfgVars, mu, sinkVars, diskVars, poolVars, sev, arg, held, cur,
                   bw, fgen, cause, exitCode, exitBy, convVars, histVars>>

\* A flushAll whose Flush writes nothing.
flushAll1Skip(p, next) ==
    /\ pc' = [pc EXCEPT ![p] = next]
    /\ fgen' = [fgen EXCEPT ![p] = 0]
    /\ UNCHANGED <<logfile, werr, iofault>>

\* flushAll, first half: if l.file != nil, l.file.Flush() up to its write
\* of b.buf[0:b.n] to the file (errors ignored by flushAll, kept by the
\* Writer).  fgen: the Writer whose b.n the second half resets, 0 if none.
flushAll1(p, next) ==
    /\ pc' = [pc EXCEPT ![p] = next]
    /\ IF file = "nil" \/ werr \/ wn = 0
       THEN /\ fgen' = [fgen EXCEPT ![p] = 0]
            /\ UNCHANGED <<logfile, werr, iofault>>
       ELSE \E ok \in BOOLEAN :
              IF ok /\ sbfile = "open"
              THEN /\ logfile' = logfile \o SubSeq(wbuf, 1, wn)
                   /\ fgen' = [fgen EXCEPT ![p] = wgen]
                   /\ UNCHANGED <<werr, iofault>>
              ELSE /\ werr' = TRUE
                   /\ iofault' = TRUE
                   /\ fgen' = [fgen EXCEPT ![p] = 0]
                   /\ UNCHANGED logfile

Copying == {u \in Emitters : pc[u] = "publish"}

\* A Flush that leaves b.n as it is.
flushAll2KeepN(p, next) ==
    /\ pc' = [pc EXCEPT ![p] = next]
    /\ fgen' = [fgen EXCEPT ![p] = 0]
    /\ UNCHANGED <<wn, wbuf>>
    /\ synced' = IF file # "nil" /\ sbfile = "open" THEN Len(logfile) ELSE synced

\* flushAll, second half: b.n = 0 ends Flush; then l.file.Sync().
flushAll2(p, next) ==
    /\ pc' = [pc EXCEPT ![p] = next]
    /\ fgen' = [fgen EXCEPT ![p] = 0]
    /\ IF fgen[p] # 0 /\ fgen[p] = wgen
       THEN /\ wn' = 0
            /\ wbuf' = IF Copying = {} THEN <<>> ELSE wbuf
       ELSE UNCHANGED <<wn, wbuf>>
    /\ synced' = IF file # "nil" /\ sbfile = "open" THEN Len(logfile) ELSE synced

ExitFlush1(p) ==
    /\ Alive
    /\ pc[p] = "x_fl1"
    /\ flushAll1(p, "x_fl2")
    /\ UNCHANGED <<cfgVars, mu, file, nbytes, sbfile, wbuf, wn, wgen, fexists,
                   rotated, synced, poolVars, sev, arg, held, cur, bw, cause,
                   procVars, convVars, records, lockOrder, lastRot>>

ExitFlush2(p) ==
    /\ Alive
    /\ pc[p] = "x_fl2"
    /\ flushAll2(p, "osexit")
    /\ UNCHANGED <<cfgVars, mu, file, nbytes, sbfile, werr, wgen, fexists,
                   logfile, rotated, poolVars, sev, arg, held, cur, bw, cause,
                   procVars, convVars, histVars>>

\* exit: os.Exit(2)
OsExit(p) ==
    /\ Alive
    /\ pc[p] = "osexit"
    /\ exitCode' = 2
    /\ exitBy' = p
    /\ UNCHANGED <<cfgVars, mu, sinkVars, diskVars, poolVars, pc, sev, arg,
                   held, cur, bw, fgen, cause, stderr, convVars, histVars>>

\* ----------------------------------------- Flush() and the flush daemon
\* lockAndFlushAll: l.mu.Lock().  Called by Flush() from any thread, and
\* by flushDaemon on every tick.
FlushLock(p) ==
    /\ Alive
    /\ pc[p] = "idle"
    /\ mu = NoProc
    /\ mu' = p
    /\ pc' = [pc EXCEPT ![p] = "fl1"]
    /\ UNCHANGED <<cfgVars, sinkVars, diskVars, poolVars, sev, arg, held, cur, bw,
                   fgen, cause, procVars, convVars, histVars>>

Flush1(p) ==
    /\ Alive
    /\ pc[p] = "fl1"
    /\ flushAll1(p, "fl2")
    /\ UNCHANGED <<cfgVars, mu, file, nbytes, sbfile, wbuf, wn, wgen, fexists,
                   rotated, synced, poolVars, sev, arg, held, cur, bw, cause,
                   procVars, convVars, records, lockOrder, lastRot>>

Flush2(p) ==
    /\ Alive
    /\ pc[p] = "fl2"
    /\ flushAll2(p, "fl_unlock")
    /\ UNCHANGED <<cfgVars, mu, file, nbytes, sbfile, werr, wgen, fexists,
                   logfile, rotated, poolVars, sev, arg, held, cur, bw, cause,
                   procVars, convVars, histVars>>

\* lockAndFlushAll: l.mu.Unlock()
FlushUnlock(p) ==
    /\ Alive
    /\ pc[p] = "fl_unlock"
    /\ mu' = NoProc
    /\ pc' = [pc EXCEPT ![p] = "idle"]
    /\ UNCHANGED <<cfgVars, sinkVars, diskVars, poolVars, sev, arg, held, cur, bw,
                   fgen, cause, procVars, convVars, histVars>>

\* ------------------------------------------------------ specifications
\* The state NewLogger returns: no file, the lock free, the pool empty,
\* the daemon started.
InitState(levels, sizes) ==
    /\ logLevel \in levels
    /\ fileMaxSize \in sizes
    /\ mu = NoProc
    /\ file = "nil"
    /\ nbytes = 0
    /\ sbfile = "nil"
    /\ wbuf = <<>> /\ wn = 0 /\ werr = FALSE /\ wgen = 0
    /\ fexists = FALSE /\ logfile = <<>> /\ rotated = <<>> /\ synced = 0
    /\ pool = {}
    /\ bufs = [b \in BufIds |-> <<>>]
    /\ pc = [p \in Procs |-> "idle"]
    /\ sev = [p \in Procs |-> DebugLog]
    /\ arg = [p \in Procs |-> NoArg]
    /\ held = [p \in Procs |-> NoBuf]
    /\ bw = [p \in Procs |-> NoFrame]
    /\ fgen = [p \in Procs |-> 0]
    /\ cause = [p \in Procs |-> ""]
    /\ cur = [p \in Procs |-> 0]
    /\ exitCode = Running
    /\ exitBy = NoProc
    /\ stderr = <<>>
    /\ sizeArg = <<>>
    /\ panicked = FALSE
    /\ records = <<>>
    /\ lockOrder = <<>>
    /\ iofault = FALSE
    /\ lastRot = NoRot

InitLogger(levels, sizes) ==
    /\ InitState(levels, sizes)
    /\ fnArgs = NoCall
    /\ fnOut = NoCall

\* The steps of output, exit and lockAndFlushAll of goroutine p.
Steps(p) ==
    \/ Return(p)
    \/ OutputLock(p)
    \/ OutputCreate(p)
    \/ SyncBufferWrite(p)
    \/ BufioCopy(p)
    \/ BufioPublish(p)
    \/ OutputUnlock(p)
    \/ OutputPut(p)
    \/ Exit(p)
    \/ ExitFlush1(p)
    \/ ExitFlush2(p)
    \/ OsExit(p)
    \/ Flush1(p)
    \/ Flush2(p)
    \/ FlushUnlock(p)

\* Concurrent emitters at a fixed level, and the flush daemon.
Init == InitLogger({InfoLog}, {U64OfNat(m) : m \in MaxSizes})

Next ==
    \/ \E t \in Emitters, s \in {DebugLog, InfoLog, FatalLog},
          p \in {<<>>, <<"x">>} :
         Call(t, "plain", s, p)
    \/ FlushLock(Daemon)
    \/ \E p \in Procs : Steps(p)

Spec == Init /\ [][Next]_vars

\* One thread at every level and severity: the gate, SetLevel, Flush().
GateThread == "e1"

\* The number of admitted emit calls in one behaviour of SpecGate.
MaxGateRecords == 1

GatePayloads == Payloads \cup {<<"x", "x", "x", "x", "x">>}

InitGate == InitLogger(Levels, {U64OfNat(m) : m \in MaxSizes})

NextGate ==
    \/ \E v \in Variants, s \in Severities, p \in GatePayloads :
         /\ shouldEmit(s, logLevel) => Len(records) < MaxGateRecords
         /\ Call(GateThread, v, s, p)
    \/ \E level \in Levels : SetLevel(GateThread, level)
    \/ FlushLock(GateThread)
    \/ Steps(GateThread)

SpecGate == InitGate /\ [][NextGate]_vars

\* -------------------------------------------------------------- NewLogger
\* The characters of the size strings, by code: ' ' + - . 0 1 9 : G K M X
\* g k m.
SizeChars == {32, 43, 45, 46, 48, 49, 57, 58, 71, 75, 77, 88, 103, 107, 109}

\* The longest size string handed to NewLogger.
MaxSizeLen == 3

RECURSIVE StringsUpTo(_)
StringsUpTo(n) ==
    IF n = 0 THEN {<<>>}
    ELSE LET shorter == StringsUpTo(n - 1)
         IN  shorter \cup {Append(w, c) : w \in {x \in shorter : Len(x) = n - 1},
                                          c \in SizeChars}

SizeStrings == StringsUpTo(MaxSizeLen)

\* stringToInt: for each rune, ch -= '0'; if ch > 9 an error is returned;
\* n = n*10 + uint64(ch).  ch is a signed 32-bit rune.
RECURSIVE stringToIntFrom(_, _)
stringToIntFrom(str, n) ==
    IF str = <<>> THEN [n |-> n, err |-> FALSE]
    ELSE LET ch == Head(str) - 48
         IN  IF ch > 9 THEN [n |-> n, err |-> TRUE]
             ELSE stringToIntFrom(Tail(str), U64MulAdd(n, 10, U64OfInt32(ch)))

stringToInt(str) == stringToIntFrom(str, U64Zero)

\* unitConv: s[:len(s)-1] (a slice out of range, a run-time panic, for the
\* empty string), the numeral, then the unit; an error of stringToInt or
\* any other unit is os.Exit(1).
unitConv(str) ==
    IF Len(str) = 0 THEN [out |-> "panic", n |-> U64Zero]
    ELSE LET r == stringToInt(SubSeq(str, 1, Len(str) - 1))
             u == str[Len(str)]
         IN  IF r.err THEN [out |-> "exit1", n |-> U64Zero]
             ELSE IF u \in {71, 103}
             THEN [out |-> "ok", n |-> U64Mul(U64Mul(U64Mul(r.n, 1024), 1024), 1024)]
             ELSE IF u \in {77, 109}
             THEN [out |-> "ok", n |-> U64Mul(U64Mul(r.n, 1024), 1024)]
             ELSE IF u \in {75, 107}
             THEN [out |-> "ok", n |-> U64Mul(r.n, 1024)]
             ELSE [out |-> "exit1", n |-> U64Zero]

\* Before NewLogger: no logger, no daemon.
InitNew ==
    /\ sizeArg \in SizeStrings
    /\ fnArgs = NoCall /\ fnOut = NoCall
    /\ logLevel = DebugLog
    /\ fileMaxSize = U64Zero
    /\ mu = NoProc
    /\ file = "nil"
    /\ nbytes = 0
    /\ sbfile = "nil"
    /\ wbuf = <<>> /\ wn = 0 /\ werr = FALSE /\ wgen = 0
    /\ fexists = FALSE /\ logfile = <<>> /\ rotated = <<>> /\ synced = 0
    /\ pool = {}
    /\ bufs = [b \in BufIds |-> <<>>]
    /\ pc = [p \in Procs |-> IF p = Daemon THEN "off" ELSE "new"]
    /\ sev = [p \in Procs |-> DebugLog]
    /\ arg = [p \in Procs |-> NoArg]
    /\ held = [p \in Procs |-> NoBuf]
    /\ bw = [p \in Procs |-> NoFrame]
    /\ fgen = [p \in Procs |-> 0]
    /\ cause = [p \in Procs |-> ""]
    /\ cur = [p \in Procs |-> 0]
    /\ exitCode = Running
    /\ exitBy = NoProc
    /\ stderr = <<>>
    /\ panicked = FALSE
    /\ records = <<>>
    /\ lockOrder = <<>>
    /\ iofault = FALSE
    /\ lastRot = NoRot

\* NewLogger(logPath, fileMaxSize, logLevel, flushInterval), called by t:
\* unitConv first, then the logger, then go logger.flushDaemon.
NewLogger(t, level) ==
    /\ Alive
    /\ pc[t] = "new"
    /\ LET r == unitConv(sizeArg)
       IN  CASE r.out = "panic" ->
                  /\ panicked' = TRUE
                  /\ exitCode' = 2
                  /\ exitBy' = t
                  /\ UNCHANGED <<cfgVars, pc, stderr>>
             [] r.out = "exit1" ->
                  /\ stderr' = Append(stderr, [kind |-> "size", bytes |-> <<>>])
                  /\ exitCode' = 1
                  /\ exitBy' = t
                  /\ UNCHANGED <<cfgVars, pc, panicked>>
             [] OTHER ->
                  /\ fileMaxSize' = r.n
                  /\ logLevel' = level
                  /\ pc' = [p \in Procs |-> "idle"]
                  /\ UNCHANGED <<procVars, panicked>>
    /\ UNCHANGED <<mu, sinkVars, diskVars, poolVars, sev, arg, held, cur, bw, fgen,
                   cause, sizeArg, fnVars, histVars>>

NextNew == \E level \in {InfoLog} : NewLogger("e1", level)

SpecNew == InitNew /\ [][NextNew]_vars

\* ------------------------------------------------------------ fairness
\* One emitter and the flush daemon, scheduled fairly: a goroutine inside
\* a call goes on, the ticker keeps ticking and the daemon gets the lock
\* when it is free again and again.  Nothing obliges the emitter to call.
NextLive ==
    \/ \E s \in {DebugLog, InfoLog, FatalLog}, p \in {<<>>, <<"x">>} :
         Call(GateThread, "plain", s, p)
    \/ FlushLock(Daemon)
    \/ Steps(GateThread)
    \/ Steps(Daemon)

SpecLive ==
    /\ Init
    /\ [][NextLive]_vars
    /\ WF_vars(Steps(GateThread))
    /\ WF_vars(Steps(Daemon))
    /\ SF_vars(FlushLock(Daemon))
    /\ SF_vars(OutputLock(GateThread))

\* ----------------------------------------------------------- formatHeader
\* const digits = "0123456789"
digits == <<"0", "1", "2", "3", "4", "5", "6", "7", "8", "9">>

\* buffer.tmp is a [29]byte; it is not cleared by Reset, so a buffer from
\* the pool comes with the bytes of its last use.
TmpLen == 29
Tmps == {[i \in 1..TmpLen |-> "0"], [i \in 1..TmpLen |-> "#"]}

\* buf.tmp[i] = c, i counted from 0 as in the source.
SetTmp(tmp, i, c) == [tmp EXCEPT ![i + 1] = c]

\* A twoDigits that writes the two digits the other way round.
twoDigitsSwapped(tmp, i, d) ==
    LET t1 == SetTmp(tmp, i, digits[(d % 10) + 1])
    IN  SetTmp(t1, i + 1, digits[((d \div 10) % 10) + 1])

\* twoDigits(i, d)
twoDigits(tmp, i, d) ==
    LET t1 == SetTmp(tmp, i + 1, digits[(d % 10) + 1])
    IN  SetTmp(t1, i, digits[((d \div 10) % 10) + 1])

\* nDigits(n, i, d, pad), from j down: digits while d > 0, then pad (d
\* stays 0 once it is 0, so the two loops are one recursion).
RECURSIVE nDigitsFrom(_, _, _, _, _)
nDigitsFrom(tmp, i, d, pad, j) ==
    IF j < 0 THEN tmp
    ELSE IF d > 0
    THEN nDigitsFrom(SetTmp(tmp, i + j, digits[(d % 10) + 1]), i, d \div 10,
                     pad, j - 1)
    ELSE nDigitsFrom(SetTmp(tmp, i + j, pad), i, d, pad, j - 1)

nDigits(tmp, n, i, d, pad) == nDigitsFrom(tmp, i, d, pad, n - 1)

\* someDigits(i, d): the digits are written from the top of tmp down to
\* index j, then copy(buf.tmp[i:], buf.tmp[j:]) moves them to i; the
\* result is tmp and the number of bytes copied.
RECURSIVE someDigitsLoop(_, _, _)
someDigitsLoop(tmp, j, d) ==
    LET t1 == SetTmp(tmp, j - 1, digits[(d % 10) + 1])
    IN  IF d \div 10 = 0 THEN [tmp |-> t1, j |-> j - 1]
        ELSE someDigitsLoop(t1, j - 1, d \div 10)

someDigits(tmp, i, d) ==
    LET r == someDigitsLoop(tmp, TmpLen, d)
        n == IF TmpLen - i < TmpLen - r.j THEN TmpLen - i ELSE TmpLen - r.j
    IN  [tmp |-> [k \in 1..TmpLen |->
                    IF k - 1 >= i /\ k - 1 < i + n
                    THEN r.tmp[r.j + (k - 1 - i) + 1] ELSE r.tmp[k]],
         n |-> n]

\* formatHeader(s, file, line) with now := timeNow() and the tmp array of
\* the buffer it got: the bytes it leaves in the buffer.
formatHeaderBytes(tmp, s, now, fname, line) ==
    LET line1 == IF line < 0 THEN 0 ELSE line
        s1 == IF s > FatalLog THEN FatalLog ELSE s
        a0 == SetTmp(tmp, 0, severityChar[s1 + 1])
        a1 == nDigits(a0, 4, 1, now.year, "0")
        a2 == SetTmp(a1, 5, "-")
        a3 == twoDigits(a2, 6, now.month)
        a4 == SetTmp(a3, 8, "-")
        a5 == twoDigits(a4, 9, now.day)
        a6 == SetTmp(a5, 11, " ")
        a7 == twoDigits(a6, 12, now.hour)
        a8 == SetTmp(a7, 14, ":")
        a9 == twoDigits(a8, 15, now.minute)
        a10 == SetTmp(a9, 17, ":")
        a11 == twoDigits(a10, 18, now.second)
        a12 == SetTmp(a11, 20, ".")
        a13 == nDigits(a12, 6, 21, now.micro, "0")
        a14 == SetTmp(a13, 27, " ")
        b0 == SetTmp(a14, 0, ":")
        r == someDigits(b0, 1, line1)
        b1 == SetTmp(r.tmp, r.n + 1, "]")
        b2 == SetTmp(b1, r.n + 2, " ")
    IN  SubSeq(a14, 1, 28) \o fname \o SubSeq(b2, 1, r.n + 3)

\* The calls of formatHeader: severities up to two above FatalLog, times
\* with a four-digit year, file names, line numbers.
HeaderSeverities == DebugLog..(FatalLog + 2)
HeaderTimes ==
    [year : {1000, 2024, 9999}, month : {1, 12}, day : {9, 31},
     hour : {0, 23}, minute : {5, 59}, second : {0, 40},
     micro : {0, 7, 120034, 999999}]
HeaderFiles == {<<"a", ".", "g", "o">>, <<"?", "?", "?">>}
HeaderLines == {-1, 0, 7, 10, 4096, 2147483647}
HeaderArgs ==
    [tmp : Tmps, s : HeaderSeverities, now : HeaderTimes, file : HeaderFiles,
     line : HeaderLines]

InitHeader ==
    /\ InitState({InfoLog}, {U64OfNat(m) : m \in MaxSizes})
    /\ fnArgs \in HeaderArgs
    /\ fnOut = NoCall

FormatHeader ==
    /\ fnOut = NoCall
    /\ fnOut' = formatHeaderBytes(fnArgs.tmp, fnArgs.s, fnArgs.now,
                                   fnArgs.file, fnArgs.line)
    /\ UNCHANGED <<cfgVars, mu, sinkVars, diskVars, poolVars, pc, sev, arg,
                   held, cur, bw, fgen, cause, procVars, sizeArg, panicked,
                   fnArgs, histVars>>

NextHeader == FormatHeader

SpecHeader == InitHeader /\ [][NextHeader]_vars

\* ------------------------------------------------- rotateFile: filePath
\* fmt's %d of a number that is not negative.
RECURSIVE sprintD(_)
sprintD(n) ==
    IF n < 10 THEN <<digits[n + 1]>>
    ELSE sprintD(n \div 10) \o <<digits[(n % 10) + 1]>>

\* logPath, in the model.
logPath == <<"l">>

\* filePath := fmt.Sprintf("%s.%d%d%d.%d%d%d", sb.logger.logPath,
\*     now.Year(), now.Month(), now.Day(), now.Hour(), now.Minute(),
\*     now.Day())
filePath(now) ==
    logPath \o <<".">> \o sprintD(now.year) \o sprintD(now.month)
            \o sprintD(now.day) \o <<".">> \o sprintD(now.hour)
            \o sprintD(now.minute) \o sprintD(now.day)

\* The times of two rotations.
RotTimes ==
    [year : {2024, 2025}, month : {1, 11}, day : {1, 11}, hour : {1, 11},
     minute : {1, 11}]

InitName ==
    /\ InitState({InfoLog}, {U64OfNat(m) : m \in MaxSizes})
    /\ fnArgs \in RotTimes \X RotTimes
    /\ fnOut = NoCall

\* The file names of two calls of rotateFile, at fnArgs[1] and fnArgs[2].
RotateNames ==
    /\ fnOut = NoCall
    /\ fnOut' = <<filePath(fnArgs[1]), filePath(fnArgs[2])>>
    /\ UNCHANGED <<cfgVars, mu, sinkVars, diskVars, poolVars, pc, sev, arg,
                   held, cur, bw, fgen, cause, procVars, sizeArg, panicked,
                   fnArgs, histVars>>

NextName == RotateNames

SpecName == InitName /\ [][NextName]_vars

\* ------------------------------------------------------------- claims
\* Every byte the sink holds, oldest first: the files renamed aside, the
\* file at logPath, the bytes buffered in the Writer.
Stream == Flatten(rotated) \o logfile \o SubSeq(wbuf, 1, wn)

\* The admitted records in the order their emitters acquired mu.
Expected == Flatten([i \in 1..Len(lockOrder) |-> records[lockOrder[i]]])

\* The goroutines between l.mu.Lock() and the end of l.file.Write(data).
Writing == {u \in Emitters : pc[u] \in {"create", "write", "copy", "publish"}}

\* The goroutines inside Flush, between its write of the buffered bytes to
\* the file and b.n = 0 (the bytes are in the file and still counted as
\* buffered).
Flushing == {u \in Procs : fgen[u] # 0}

\* C1: as long as no I/O operation failed, the sink's byte stream is the
\* concatenation of whole records in lock-acquisition order: outside a
\* Flush it is always a prefix of it, and all of it whenever no emitter is
\* inside Write.
C1_WholeRecordsInLockOrder ==
    (~iofault /\ Flushing = {}) =>
        /\ IsPrefix(Stream, Expected)
        /\ (Writing = {} => Stream = Expected)

\* rec occurs in s as one contiguous run.
Occurs(rec, s) ==
    \E i \in 0..(Len(s) - Len(rec)) : SubSeq(s, i + 1, i + Len(rec)) = rec

\* The bytes in the files: those renamed aside and the one at logPath.
OnDisk == Flatten(rotated) \o logfile

\* C2: for severities S and minimum levels M among the five defined ones,
\* a call (of any variant) goes on to write its record iff S >= M, and the
\* record is in the sink when its Write returns; a call with S < M takes no
\* lock, borrows no buffer, writes nothing and creates no file.
C2_EmitsIffAtLeastMinimum ==
    [][\A t \in Emitters :
         /\ (pc[t] = "idle" /\ pc'[t] \in {"lock", "declined"}
                 /\ logLevel \in Severities /\ sev'[t] \in Severities) =>
               /\ (pc'[t] = "lock") <=> (sev'[t] >= logLevel)
               /\ (sev'[t] < logLevel) =>
                     UNCHANGED <<mu, sinkVars, diskVars, poolVars, held,
                                 records, lockOrder>>
         /\ (pc[t] = "publish" /\ pc'[t] = "unlock" /\ ~iofault') =>
               Occurs(records[cur[t]], Stream')]_vars

\* A call one level below the minimum was turned away after a call at
\* exactly the minimum was written: nothing but that record is in the sink.
C2_Witness ==
    /\ pc[GateThread] = "declined"
    /\ sev[GateThread] = WarningLog
    /\ logLevel = ErrorLog
    /\ Len(records) = 1
    /\ Untag(records[1])[1] = "I"
    /\ Stream = records[1]
    /\ mu = NoProc

\* fileMaxSize as a number (its two upper limbs are zero here).
MaxSizeNat == fileMaxSize[1] + Limb * fileMaxSize[2]

\* C3: a Write of a record of n bytes rotates iff nbytes + n >= maxSize.
\* A rotation that succeeds renames aside a file without any byte of the
\* record and leaves an empty file at logPath, which holds (with the
\* Writer's buffer) exactly the record once it is written; without
\* rotation no file is renamed or created.
C3_RotatesIffSizeReached ==
    [][\A t \in Emitters :
         /\ (pc[t] = "write" /\ pc'[t] # "write") =>
               IF nbytes + Len(Data(t)) >= MaxSizeNat
               THEN \/ pc'[t] = "exit" /\ iofault'
                    \/ /\ pc'[t] = "copy"
                       /\ Len(rotated') = Len(rotated) + 1
                       /\ SubSeq(rotated', 1, Len(rotated)) = rotated
                       /\ \A i \in 1..Len(Last(rotated')) :
                            Last(rotated')[i][1] # cur[t]
                       /\ logfile' = <<>> /\ wn' = 0 /\ fexists'
                       /\ nbytes' = 0
               ELSE /\ pc'[t] = "copy"
                    /\ UNCHANGED <<rotated, fexists, logfile, wgen, sbfile,
                                   nbytes>>
         /\ (pc[t] = "publish" /\ pc'[t] = "unlock" /\ lastRot.rid = cur[t]) =>
               logfile' \o SubSeq(wbuf', 1, wn') = records[cur[t]]]_vars

\* A record that brought the counter to exactly maxSize was written after
\* a rotation: the earlier record is in the file renamed aside.
C3_Witness ==
    \E t \in Emitters :
        /\ pc[t] = "unlock"
        /\ lastRot.rid = cur[t]
        /\ Len(lastRot.old) + Len(records[cur[t]]) = MaxSizeNat
        /\ Len(lastRot.old) > 0
        /\ rotated = <<lastRot.old>>
        /\ logfile \o SubSeq(wbuf, 1, wn) = records[cur[t]]

\* C4: while the sink is open (and nobody is inside Write or Flush, and no
\* I/O failed), nbytes is the number of bytes in the file at logPath plus
\* the number of bytes buffered.
C4_CounterIsBytesAccepted ==
    (file = "sb" /\ sbfile = "open" /\ ~iofault /\ Writing = {}
         /\ Flushing = {}) =>
        nbytes = Len(logfile) + wn

\* C5: every step that changes the sink (file handle, Writer, counter) or
\* the files is taken by the goroutine that holds l.mu.
C5_SinkMutatedUnderLock ==
    [][(sinkVars' # sinkVars \/ diskVars' # diskVars) =>
           \E p \in Procs : mu = p /\ pc'[p] # pc[p]]_vars

\* C6: no Fatal* call returns to its caller, whatever logLevel holds.
C6_FatalNeverReturns ==
    \A t \in Emitters : pc[t] = "declined" => sev[t] # FatalLog

\* C7: when the process exits because of a Fatal* call and no I/O failed,
\* the record of that call is in the files, whole.
C7_FatalRecordInFile ==
    (exitCode = 2 /\ exitBy \in Emitters /\ cause[exitBy] = "fatal"
         /\ ~iofault) =>
        Occurs(records[cur[exitBy]], OnDisk)

\* The kinds of I/O failure met while emitting a record.
IOCauses == {"create", "rename", "recreate", "write"}

\* C8: when the process exits because an I/O operation failed while a
\* record was emitted, the exit code is 2 and the bytes of that record were
\* written to os.Stderr.
C8_RecordOnStderrThenExit2 ==
    (exitCode # Running /\ exitBy \in Emitters /\ cause[exitBy] \in IOCauses) =>
        /\ exitCode = 2
        /\ \E i \in 1..Len(stderr) :
             stderr[i].kind = "data" /\ stderr[i].bytes = records[cur[exitBy]]

\* A size string of the documented form: decimal digits, at least one,
\* then one of K k M m G g.
Digits == 48..57
Units == {71, 75, 77, 103, 107, 109}
WellFormed(str) ==
    /\ Len(str) >= 2
    /\ \A i \in 1..(Len(str) - 1) : str[i] \in Digits
    /\ str[Len(str)] \in Units

RECURSIVE Numeral(_)
Numeral(ds) ==
    IF ds = <<>> THEN 0 ELSE 10 * Numeral(SubSeq(ds, 1, Len(ds) - 1)) + (Last(ds) - 48)

RECURSIVE Times1024(_, _)
Times1024(u, k) == IF k = 0 THEN u ELSE Times1024(U64Mul(u, 1024), k - 1)

SizeOf(str) ==
    LET u == Last(str)
        k == IF u \in {75, 107} THEN 1 ELSE IF u \in {77, 109} THEN 2 ELSE 3
    IN  Times1024(U64OfNat(Numeral(SubSeq(str, 1, Len(str) - 1))), k)

\* C9: once NewLogger has run, a size string of the documented form has
\* given fileMaxSize the numeral times the unit, and any other size string
\* has ended the process with exit code 1, before anything was created.
C9_MalformedSizeExits1 ==
    (pc[GateThread] # "new" \/ exitCode # Running) =>
        IF WellFormed(sizeArg)
        THEN exitCode = Running /\ fileMaxSize = SizeOf(sizeArg)
        ELSE exitCode = 1 /\ ~panicked /\ ~fexists /\ pc[Daemon] = "off"

\* The header of a record of severity s.
HeaderOf(s) == <<severityChar[s + 1], " ">>

\* C10: the record an emit call hands to output is header + payload if the
\* payload ends in a newline and header + payload + newline otherwise; it
\* ends in a newline.
C10_NewlineOnlyIfAbsent ==
    [][\A t \in Emitters :
         (pc[t] = "idle" /\ pc'[t] = "lock" /\ sev'[t] \in Severities) =>
            LET p == arg'[t]
                rec == Untag(records'[cur'[t]])
            IN  /\ rec = HeaderOf(sev'[t]) \o p \o
                           (IF p # <<>> /\ Last(p) = NL THEN <<>> ELSE <<NL>>)
                /\ Last(rec) = NL
                /\ bufs'[held'[t]] = records'[cur'[t]]]_vars

\* A record whose payload ended in a newline is in the sink with that one
\* newline.
C10_Witness ==
    /\ pc[GateThread] = "unlock"
    /\ arg[GateThread] = <<"x", NL>>
    /\ Untag(Stream) = <<"I", " ", "x", NL>>

\* The positions of lockAndFlushAll between Lock and Unlock.
InFlush == {"fl1", "fl2", "fl_unlock"}

Holders == {t \in Emitters : held[t] # NoBuf}

\* C12: every buffer in the pool is empty, a held buffer holds the bytes of
\* its call's record and nothing else, no buffer is held by two calls, and
\* no held buffer is in the pool.
C12_PooledBuffersEmptyAndUnshared ==
    /\ \A b \in pool : bufs[b] = <<>>
    /\ \A t \in Holders :
         /\ held[t] \notin pool
         /\ bufs[held[t]] = records[cur[t]]
         /\ \A u \in Holders : u # t => held[u] # held[t]

\* The second record is being emitted from the buffer the first record
\* was formatted in, taken back from the pool.
C12_Witness ==
    \E t \in Emitters :
        /\ cur[t] = 2
        /\ held[t] = 1
        /\ Holders = {t}
        /\ bufs[1] = records[2]
        /\ records[1] # records[2]
        /\ pool = {}

\* n in decimal, in w digits, zero-padded.
RECURSIVE Pow10(_)
Pow10(k) == IF k = 0 THEN 1 ELSE 10 * Pow10(k - 1)
Decimal(n, w) == [k \in 1..w |-> digits[((n \div Pow10(w - k)) % 10) + 1]]

\* The number of digits of n in decimal.
RECURSIVE Width(_)
Width(n) == IF n < 10 THEN 1 ELSE 1 + Width(n \div 10)

\* C13: formatHeader leaves in the buffer the severity character (F for
\* severities above FatalLog), yyyy-mm-dd hh:mm:ss.uuuuuu, a space, the
\* file name, a colon, the line number in decimal without padding (0 for
\* a negative one), "] ".
C13_HeaderLayout ==
    fnOut # NoCall =>
        LET a == fnArgs
            t == a.now
            line == IF a.line < 0 THEN 0 ELSE a.line
            c == IF a.s > FatalLog THEN "F" ELSE severityChar[a.s + 1]
        IN  fnOut = <<c>> \o Decimal(t.year, 4) \o <<"-">>
                        \o Decimal(t.month, 2) \o <<"-">> \o Decimal(t.day, 2)
                        \o <<" ">> \o Decimal(t.hour, 2) \o <<":">>
                        \o Decimal(t.minute, 2) \o <<":">>
                        \o Decimal(t.second, 2) \o <<".">>
                        \o Decimal(t.micro, 6) \o <<" ">> \o a.file \o <<":">>
                        \o Decimal(line, Width(line)) \o <<"]", " ">>

\* The header of a call with a severity above FatalLog, one-digit fields,
\* a short microsecond count and a negative line number, formatted in a
\* buffer whose tmp array held other bytes.
C13_Witness ==
    /\ fnOut # NoCall
    /\ Len(fnOut) > 28
    /\ fnArgs.s > FatalLog
    /\ fnArgs.line < 0
    /\ fnArgs.tmp[1] = "#"
    /\ SubSeq(fnOut, 1, 28) =
         <<"F", "2", "0", "2", "4", "-", "0", "1", "-", "0", "9", " ",
           "0", "0", ":", "0", "5", ":", "0", "0", ".",
           "0", "0", "0", "0", "0", "7", " ">>
    /\ SubSeq(fnOut, Len(fnOut) - 3, Len(fnOut)) = <<":", "0", "]", " ">>

\* The records written before the one now being written, in lock order.
Earlier == Flatten([i \in 1..(Len(lockOrder) - 1) |-> records[lockOrder[i]]])

\* C14: a rotation is done by the lock holder without releasing the lock;
\* when it succeeds (no I/O operation having failed) the files renamed
\* aside hold exactly the records written before, whole and in order, the
\* new file and the Writer are empty and nbytes is 0.
C14_RotationKeepsAllBytes ==
    [][\A t \in Emitters :
         (pc[t] = "write" /\ pc'[t] = "copy"
              /\ Len(rotated') = Len(rotated) + 1 /\ ~iofault') =>
            /\ mu = t /\ mu' = t
            /\ Flatten(rotated') = Earlier
            /\ logfile' = <<>> /\ wn' = 0 /\ nbytes' = 0]_vars

\* C15: while l.file is nil no file exists; l.file becomes non-nil only by
\* the create() of an admitted emit call that holds the lock and found it
\* nil, which leaves an empty file at logPath and nbytes = 0; once non-nil
\* it stays so, with an open file as long as no I/O operation failed.
C15_ClosedUntilFirstEmitThenOpen ==
    [][/\ file = "nil" => (~fexists /\ rotated = <<>> /\ sbfile = "nil")
       /\ (file = "nil" /\ file' # "nil") =>
             \E t \in Emitters :
                 /\ pc[t] = "create" /\ pc'[t] = "write"
                 /\ mu = t /\ mu' = t
                 /\ cur[t] # 0
                 /\ fexists' /\ logfile' = <<>> /\ nbytes' = 0 /\ wn' = 0
       /\ (fexists' # fexists \/ wgen' # wgen) =>
             \/ file = "nil"
             \/ \E t \in Emitters : pc[t] = "write" /\ mu = t
       /\ file # "nil" => file' # "nil"
       /\ (file' # "nil" /\ ~iofault') => (sbfile' = "open" /\ fexists')]_vars

\* The sink, created by the first of two emit calls, is still open after
\* a rotation, while the daemon is inside lockAndFlushAll.
C15_Witness ==
    /\ file # "nil"
    /\ sbfile = "open"
    /\ pc[Daemon] \in InFlush
    /\ Len(lockOrder) = 2
    /\ rotated # <<>>
    /\ ~iofault

\* The positions of output from l.mu.Lock() to the return of
\* l.file.Write(data), and the one before l.mu.Lock().
InWrite == {"create", "write", "copy", "publish"}

\* The part of the emit order that does not depend on where putBuffer
\* stands: the buffer is formatted by a goroutine that does not hold the
\* lock, every step of the sink's write is taken with the lock held, and
\* from formatting to the end of the write the buffer is out of the pool
\* and holds the record.
EmitOrderCommon(t) ==
    /\ (pc[t] = "idle" /\ pc'[t] = "lock") =>
          (mu # t /\ mu' = mu /\ held'[t] # NoBuf)
    /\ (pc[t] \in InWrite /\ pc'[t] # pc[t]) => mu = t
    /\ (pc[t] \in InWrite \cup {"lock", "unlock"}) =>
          (held[t] \notin pool /\ bufs[held[t]] = records[cur[t]])

\* C16 as stated: format without the lock, lock, write, putBuffer, and only
\* then unlock: the buffer goes back to the pool with the lock held, and
\* the lock is released by a call that holds no buffer any more.
C16_PutBufferBeforeUnlock ==
    [][\A t \in Emitters :
         /\ EmitOrderCommon(t)
         /\ (held[t] # NoBuf /\ held'[t] = NoBuf) => (mu = t /\ mu' = t)
         /\ (pc[t] = "unlock" /\ pc'[t] # "unlock") =>
               (held[t] = NoBuf /\ mu = t /\ mu' = NoProc)]_vars

\* C16 as the code does it: format without the lock, lock, write, unlock,
\* and only then putBuffer: the lock is released by a call that still holds
\* its buffer, and the buffer goes back to the pool, cleared, without the
\* lock.
C16_UnlockBeforePutBuffer ==
    [][\A t \in Emitters :
         /\ EmitOrderCommon(t)
         /\ (pc[t] = "unlock" /\ pc'[t] # "unlock") =>
               (held[t] # NoBuf /\ held'[t] = held[t] /\ mu = t
                    /\ mu' = NoProc)
         /\ (held[t] # NoBuf /\ held'[t] = NoBuf) =>
               /\ pc[t] = "put"
               /\ mu # t /\ mu' = mu
               /\ held[t] \in pool' /\ bufs'[held[t]] = <<>>]_vars

\* An emitter has unlocked and not yet returned its buffer, while the
\* other emitter holds the lock and is writing.
C16_Witness ==
    \E t, u \in Emitters :
        /\ pc[t] = "put" /\ held[t] # NoBuf
        /\ mu = u /\ u # t /\ pc[u] \in InWrite
        /\ Occurs(records[cur[t]], Stream)

\* C17: two rotations whose times differ in year, month, day, hour or
\* minute rename the file to different names.
C17_NamesDifferUnlessSameMinute ==
    fnOut # NoCall => (fnArgs[1] # fnArgs[2] => fnOut[1] # fnOut[2])

\* Record rid has been accepted by the Writer: its emitter took the lock
\* and is past l.file.Write(data).
Accepted(rid) ==
    /\ \E i \in 1..Len(lockOrder) : lockOrder[i] = rid
    /\ \A t \in Emitters : cur[t] = rid => pc[t] \notin InWrite

\* Record rid is in a file, whole.
Flushed(rid) == rid <= Len(records) /\ Occurs(records[rid], OnDisk)

\* C18: with the daemon and the lock scheduled fairly, every record the
\* Writer accepted is eventually in a file (the one at logPath or one
\* renamed aside), unless the process exits or an I/O operation fails; no
\* further emit call is needed for that.
C18_DaemonEventuallyFlushes ==
    \A rid \in 1..MaxRecords :
        Accepted(rid) ~> (Flushed(rid) \/ ~Alive \/ iofault)

\* The daemon is about to unlock after it moved the one buffered record to
\* the file, the emitter being idle.
C18_Witness ==
    /\ pc[Daemon] = "fl_unlock"
    /\ pc[GateThread] = "idle"
    /\ Len(records) = 1
    /\ logfile = records[1]
    /\ wn = 0 /\ synced = Len(logfile)
    /\ ~iofault

\* C19: the lock is only taken when it is free, by a goroutine entering
\* output or lockAndFlushAll; with fair scheduling whoever holds it
\* releases it or the process exits, and an admitted emit call gets to the
\* end of its Write or the process exits.
C19_LockReleasedOrExit ==
    /\ [][(mu' # mu /\ mu' # NoProc) =>
              (mu = NoProc /\ pc[mu'] \in {"lock", "idle"})]_vars
    /\ \A p \in Procs : (mu = p) ~> (mu # p \/ ~Alive)
    /\ \A t \in Emitters : (pc[t] = "lock") ~> (pc[t] = "unlock" \/ ~Alive)

\* The process has exited on an I/O failure path: exit() flushed and
\* called os.Exit with the lock still held by the exiting goroutine.
C19_Witness ==
    /\ exitCode = 2
    /\ exitBy \in Emitters
    /\ mu = exitBy
    /\ cause[exitBy] \in IOCauses
    /\ pc[Daemon] = "idle"

\* Every record formatted so far is shorter than fileMaxSize.
ShortRecords == \A i \in 1..Len(records) : Len(records[i]) < MaxSizeNat

\* C20: if every record is shorter than fileMaxSize (and no I/O operation
\* failed), nbytes stays below fileMaxSize, the file at logPath holds
\* fewer than fileMaxSize bytes, and no file renamed aside is empty.
C20_CounterBelowMaxSize ==
    (ShortRecords /\ ~iofault) =>
        /\ nbytes < MaxSizeNat
        /\ Len(logfile) < MaxSizeNat
        /\ \A i \in 1..Len(rotated) : rotated[i] # <<>>

====
